---- MODULE Spec2Model ----
(***************************************************************************)
(* Kiosk checkout backend: the order validation and creation pipeline.     *)
(*                                                                         *)
(* Money is a count of half-cents (0.005), so that a price of 10.99 is     *)
(* 2198 and the tolerance 0.01 of the total check is 2; a declared total   *)
(* may then differ from the computed one by less than the tolerance.       *)
(* Strings whose content matters (card number, cvv, holder name, payment   *)
(* key) are sequences of one-character strings.                            *)
(***************************************************************************)
EXTENDS Integers, Sequences, FiniteSets, TLC

VARIABLES
    categories,   \* table categories: the menu categories
    items,        \* table items: the catalog rows
    orders,       \* table orders: the committed order headers
    order_items,  \* table order_items: the committed order lines
    writer,       \* the session holding the database write lock, or NoProc
    clock,        \* logical time: the number of the next commit of an order
    sess          \* per request worker: handler position, locals, session

vars == <<categories, items, orders, order_items, writer, clock, sess>>

----------------------------------------------------------------------------
(* Bounds of the model *)

MaxLines == 2       \* longest item list of a submitted order
MaxOrders == 1      \* Spec: requests are accepted while fewer orders are stored
MaxConcOrders == 2  \* SpecConc: the same, for the concurrent workers
MaxRows == 6        \* SpecAdmin: requests are accepted while fewer rows are stored
                    \* in categories, items and orders together

(* Program constants *)

Tolerance == 2           \* 0.01, in half-cents
ModuleLoadTime == 0      \* datetime.now() evaluated when models.py is loaded
HexLen == 16             \* hexdigest()[:16]
TailLen == 4             \* card_number[-4:]
MaxCategoryName == 100   \* len(category.name.strip()) > 100
MaxItemName == 200       \* len(item.name.strip()) > 200
MaxImageName == 255      \* len(image) > 255

HTTP_200 == 200
HTTP_400 == 400
HTTP_402 == 402
HTTP_404 == 404
HTTP_500 == 500

----------------------------------------------------------------------------
(* Strings *)

Digits == <<"0", "1", "2", "3", "4", "5", "6", "7", "8", "9">>
HexDigits == Digits \o <<"a", "b", "c", "d", "e", "f">>
Alphabet == HexDigits \o <<"J", "D", "A", "*", " ">>

Ord(c) == CHOOSE n \in 1..Len(Alphabet) : Alphabet[n] = c

\* Python s[-4:]: the last four characters, or all of s when it is shorter
Last4(s) == IF Len(s) <= TailLen THEN s ELSE SubSeq(s, Len(s) - TailLen + 1, Len(s))

\* Python str.lower()
Uppers == <<"A", "B", "C", "D", "E", "F", "G", "H", "I", "J", "K", "L", "M",
            "N", "O", "P", "Q", "R", "S", "T", "U", "V", "W", "X", "Y", "Z">>
Lowers == <<"a", "b", "c", "d", "e", "f", "g", "h", "i", "j", "k", "l", "m",
            "n", "o", "p", "q", "r", "s", "t", "u", "v", "w", "x", "y", "z">>

LowerChar(c) ==
    IF \E k \in 1..Len(Uppers) : Uppers[k] = c
    THEN Lowers[CHOOSE k \in 1..Len(Uppers) : Uppers[k] = c]
    ELSE c

Lower(s) == [k \in 1..Len(s) |-> LowerChar(s[k])]

\* Python str.strip(): leading and trailing whitespace removed
Whitespace == {" ", "\t", "\n"}

RECURSIVE LStrip(_)
LStrip(s) == IF s # <<>> /\ Head(s) \in Whitespace THEN LStrip(Tail(s)) ELSE s

RECURSIVE RStrip(_)
RStrip(s) ==
    IF s # <<>> /\ s[Len(s)] \in Whitespace THEN RStrip(SubSeq(s, 1, Len(s) - 1)) ELSE s

Strip(s) == RStrip(LStrip(s))

\* a string of n characters
Filler(n) == [k \in 1..n |-> "x"]

\* Python `needle in hay` for strings
Contains(hay, needle) ==
    \E k \in 0..(Len(hay) - Len(needle)) : SubSeq(hay, k + 1, k + Len(needle)) = needle

\* "**** **** **** "
Mask == <<"*", "*", "*", "*", " ", "*", "*", "*", "*", " ", "*", "*", "*", "*", " ">>

(* hashlib.sha256(...).hexdigest()[:16].  SHA-256 itself is replaced by a   *)
(* small deterministic digest: a polynomial fold of the characters, then    *)
(* HexLen hexadecimal characters squeezed out of the folded state.          *)
RECURSIVE Absorb(_, _)
Absorb(h, s) ==
    IF s = <<>> THEN h ELSE Absorb((h * 31 + Ord(Head(s))) % 65521, Tail(s))

RECURSIVE Squeeze(_, _)
Squeeze(h, n) ==
    IF n = 0 THEN <<>>
    ELSE <<HexDigits[(h % 16) + 1]>> \o Squeeze((h * 75 + 74) % 65537, n - 1)

Sha256Hex16(s) == Squeeze(Absorb(7, s), HexLen)

Abs(x) == IF x < 0 THEN -x ELSE x

SetMax(S) == CHOOSE x \in S : \A y \in S : y <= x

----------------------------------------------------------------------------
(* Inputs *)

Procs == {"w1", "w2"}
NoProc == "none"

\* the menu of the tests' fixture: one category
SeedCategories == { [id |-> 1, name |-> <<"T", "e", "s", "t">>, image |-> <<>>] }

\* the catalog of the spec's scenario and of the tests' fixture:
\* item 1 priced 10.99, item 2 priced 15.99, both of category 1
SeedItems ==
    { [id |-> 1, category_id |-> 1, name |-> <<"I", "1">>, price |-> 2198, image_id |-> <<>>],
      [id |-> 2, category_id |-> 1, name |-> <<"I", "2">>, price |-> 3198, image_id |-> <<>>] }

LineInputs ==
    { [item_id |-> 1, quantity |-> 2],
      [item_id |-> 2, quantity |-> 1],
      [item_id |-> 999, quantity |-> 1] }

ItemLists == UNION { [1..n -> LineInputs] : n \in 0..MaxLines }

NoAddress == [given |-> FALSE]
SomeAddress == [given |-> TRUE, street |-> "123 Main St", zip |-> "12345"]

CardLong == <<"1", "2", "3", "4", "5", "6", "7", "8", "9", "0", "1", "2", "3", "4", "5", "6">>
CardFour == <<"3", "4", "5", "6">>
CardThree == <<"4", "5", "6">>

PaymentData(card, cvv, addr) ==
    [ card_number |-> card, card_holder_name |-> <<"J", "D">>,
      expiry_month |-> 12, expiry_year |-> 2025, cvv |-> cvv,
      billing_address |-> addr ]

DefaultPayment == PaymentData(CardLong, <<"1", "2", "3">>, NoAddress)

PaymentInputs ==
    { DefaultPayment,
      PaymentData(CardLong, <<"1", "2", "3">>, SomeAddress),
      PaymentData(CardFour, <<"7", "7", "7">>, NoAddress),
      PaymentData(CardThree, <<"0", "0", "0">>, NoAddress) }

\* sum of the seeded prices of the lines that name a seeded item
RECURSIVE SeedSum(_)
SeedSum(lines) ==
    IF lines = <<>> THEN 0
    ELSE LET l == Head(lines)
             hit == { it \in SeedItems : it.id = l.item_id }
         IN  (IF hit = {} THEN 0 ELSE (CHOOSE it \in hit : TRUE).price * l.quantity)
             + SeedSum(Tail(lines))

\* a declared total is the catalog sum, or off by less than the tolerance,
\* by the tolerance, or by more than it on either side (or the scenario's
\* 99.99); OrderCreate.total is gt=0
Deltas == {-(Tolerance + 1), -1, 0, Tolerance, Tolerance + 1}

OrderCreate(lines, total, payment) ==
    [items |-> lines, total |-> total, payment |-> payment]

ScenarioLines == <<[item_id |-> 1, quantity |-> 2], [item_id |-> 2, quantity |-> 1]>>

OrderInputs ==
    { o \in { OrderCreate(l, SeedSum(l) + d, DefaultPayment) : l \in ItemLists, d \in Deltas }
            \cup { OrderCreate(ScenarioLines, 19998, DefaultPayment) }
            \cup { OrderCreate(ScenarioLines, SeedSum(ScenarioLines), pm) : pm \in PaymentInputs }
        : o.total > 0 }

\* the orders handed to repository.create_order by a direct caller
RepositoryInputs ==
    { o \in { OrderCreate(l, SeedSum(l), DefaultPayment) : l \in ItemLists } : o.total > 0 }

Request(entry, order) == [entry |-> entry, order |-> order]

RequestInputs ==
    { Request(e, o) : e \in {"service", "main"}, o \in OrderInputs }
        \cup { Request("repository", o) : o \in RepositoryInputs }

\* the orders submitted by concurrent workers
ConcInputs ==
    { OrderCreate(ScenarioLines, SeedSum(ScenarioLines), DefaultPayment),
      OrderCreate(<<[item_id |-> 1, quantity |-> 2]>>, 4396,
                  PaymentData(CardFour, <<"7", "7", "7">>, NoAddress)),
      OrderCreate(<<[item_id |-> 2, quantity |-> 1], [item_id |-> 999, quantity |-> 1]>>,
                  3198, DefaultPayment) }

ConcRequestInputs ==
    { Request(e, o) : e \in {"service", "main", "repository"}, o \in ConcInputs }

AuthorizerKinds == {"FakePaymentService", "mock_deny"}

\* what a failing store raises: an error of the database driver, or a
\* ValueError as repository.create_order raises itself
StoreExceptions == {"OperationalError", "ValueError"}

\* schemas.CategoryCreate
CategoryCreate(name, image) == [name |-> name, image |-> image]

\* names that are new, that repeat the seeded or an added category in another
\* case, that carry surrounding whitespace, that are blank or too long; an
\* image name that is too long
CategoryInputs ==
    { CategoryCreate(n, <<>>) :
        n \in { <<"D">>, <<"d">>, <<" ", "D">>, <<" ", "d">>, <<"T", "E", "S", "T">>,
                <<>>, <<" ">>, Filler(MaxCategoryName + 1) } }
        \cup { CategoryCreate(<<"D">>, Filler(MaxImageName + 1)) }

\* schemas.ItemCreate; price is gt=0
ItemCreate(name, price, image_id, category_id) ==
    [name |-> name, price |-> price, image_id |-> image_id, category_id |-> category_id]

\* the request validation of schemas.ItemCreate: Field(..., gt=0) on price
ItemCreateValid(item) == item.price > 0

\* schemas without the gt=0 constraints
OrderCreateValid_Unconstrained(order) == TRUE

\* the request validation of schemas.OrderCreate and schemas.OrderItemCreate:
\* Field(..., gt=0) on total and on every quantity; a body that fails it is
\* answered 422 by the framework and no handler runs
OrderCreateValid(order) ==
    /\ order.total > 0
    /\ \A k \in DOMAIN order.items : order.items[k].quantity > 0

AddedPrice == 500   \* 2.50, the price of the items added through the admin service

\* category 1 is seeded, 2 is the first added category, 9 is never assigned
\* the last one is refused by the schema before the service is entered
ItemInputs ==
    { item \in
        { ItemCreate(n, AddedPrice, <<>>, c) :
            n \in { <<"i", "1">>, <<" ", "Z">>, <<" ", "z">> }, c \in {1, 2, 9} }
        \cup { ItemCreate(n, AddedPrice, <<>>, 1) : n \in { <<>>, Filler(MaxItemName + 1) } }
        \cup { ItemCreate(<<"Z">>, AddedPrice, Filler(MaxImageName + 1), 1) }
        \cup { ItemCreate(<<"f", "r", "e", "e">>, 0, <<>>, 1) }
      : ItemCreateValid(item) }

NoAdmin == [name |-> <<>>]

\* the orders submitted while the menu is administered: one within the
\* tolerance of the seeded price, one beyond it, one of the first added
\* item, and one that a direct caller hands to the repository
\* the last two are refused by the schema before a handler is entered: an
\* empty order of total 0, and a line of quantity 0 declared at one cent
AdminOrderInputs ==
    { r \in
        { Request("service", OrderCreate(<<[item_id |-> 1, quantity |-> 2]>>, 4397, DefaultPayment)),
          Request("main", OrderCreate(<<[item_id |-> 2, quantity |-> 1]>>, 3198 + Tolerance + 1,
                                      DefaultPayment)),
          Request("service", OrderCreate(<<[item_id |-> 3, quantity |-> 1]>>, AddedPrice,
                                         PaymentData(CardFour, <<"7", "7", "7">>, NoAddress))),
          Request("repository", OrderCreate(ScenarioLines, SeedSum(ScenarioLines), DefaultPayment)),
          Request("service", OrderCreate(<<>>, 0, DefaultPayment)),
          Request("main", OrderCreate(<<[item_id |-> 1, quantity |-> 0]>>, Tolerance,
                                      DefaultPayment)) }
      : OrderCreateValid(r.order) }

----------------------------------------------------------------------------
(* Rows, responses, sessions *)

NoOrder == OrderCreate(<<>>, 0, DefaultPayment)

NoResponse == [status |-> 0, raised |-> "none", detail |-> [kind |-> "none"], body |-> {}]

Returned(body) ==
    [status |-> HTTP_200, raised |-> "none", detail |-> [kind |-> "none"], body |-> {body}]

HTTPException(status, detail) ==
    [status |-> status, raised |-> "HTTPException", detail |-> detail, body |-> {}]

Raised(exc, detail) ==
    [status |-> 0, raised |-> exc, detail |-> detail, body |-> {}]

\* f"Item with ID {item_id} not found"
ItemNotFound(item_id) == [kind |-> "ItemNotFound", item_id |-> item_id]

\* f"Total mismatch. Expected: {calculated_total}, Received: {order.total}"
TotalMismatch(expected, received) ==
    [kind |-> "TotalMismatch", expected |-> expected, received |-> received]

Call(name, arg, result) == [call |-> name, arg |-> arg, result |-> result]

IdleSession ==
    [ pc |-> "idle", entry |-> "none", order |-> NoOrder, i |-> 0,
      calculated_total |-> 0, tx_order |-> {}, tx_lines |-> {}, pending |-> <<>>,
      trace |-> <<>>, log |-> {}, response |-> NoResponse, admin |-> NoAdmin,
      snap |-> [orders |-> {}, order_items |-> {}, categories |-> {}, items |-> {}] ]

\* mutant: the largest id of the table is handed out again
NextId_Largest(rows) == IF rows = {} THEN 1 ELSE SetMax({ r.id : r \in rows })

\* INTEGER PRIMARY KEY of SQLite: one more than the largest id of the table
NextId(rows) == IF rows = {} THEN 1 ELSE SetMax({ r.id : r \in rows }) + 1

\* db.query(models.Item).filter(models.Item.id == item_id).first()
get_item_by_id(item_id) == { it \in items : it.id = item_id }

RECURSIVE SortedById(_)
SortedById(rows) ==
    IF rows = {} THEN <<>>
    ELSE LET r == CHOOSE x \in rows : \A y \in rows : x.id <= y.id
         IN  <<r>> \o SortedById(rows \ {r})

\* schemas.OrderItem over the order_items relationship of an order
OrderItemsOf(order_id, lines) ==
    LET rows == SortedById({ l \in lines : l.order_id = order_id })
    IN  [ k \in 1..Len(rows) |->
            [id |-> rows[k].id, item_id |-> rows[k].item_id, quantity |-> rows[k].quantity,
             item |-> get_item_by_id(rows[k].item_id)] ]

\* mutant: the response model also carries the stored payment_data column
OrderSchema_WithPaymentData(row, lines) ==
    [ id |-> row.id, timestamp |-> row.timestamp, total |-> row.total,
      payment_key |-> row.payment_key, payment_data |-> row.payment_data,
      order_items |-> OrderItemsOf(row.id, lines) ]

\* schemas.Order, the response_model of create_order and get_order
OrderSchema(row, lines) ==
    [ id |-> row.id, timestamp |-> row.timestamp, total |-> row.total,
      payment_key |-> row.payment_key, order_items |-> OrderItemsOf(row.id, lines) ]

\* models.Order as repository.create_order returns it to a direct caller
OrmOrder(row, lines) ==
    [ id |-> row.id, timestamp |-> row.timestamp, total |-> row.total,
      payment_key |-> row.payment_key, payment_data |-> row.payment_data,
      order_items |-> OrderItemsOf(row.id, lines) ]

\* FakePaymentService.process_payment returns True; the tests patch it with
\* an authorizer that declines (mock_deny), the spec allows a real gateway
process_payment(installed, amount, payment_data) == installed = "FakePaymentService"

\* mutant: the whole card number is hashed, not only its last four digits
PaymentKey_WholeCard(payment) == Sha256Hex16(payment.card_number \o payment.card_holder_name)

\* payment_key of repository.create_order
PaymentKey(payment) == Sha256Hex16(Last4(payment.card_number) \o payment.card_holder_name)

\* payment_data of repository.create_order: model_dump() with card_number masked
MaskedPaymentData(payment) ==
    [payment EXCEPT !.card_number = Mask \o Last4(payment.card_number)]

\* models.Order(total=order.total, payment_key=..., payment_data=...) after flush
OrderRow(order) ==
    [ id |-> NextId(orders), timestamp |-> ModuleLoadTime, total |-> order.total,
      payment_key |-> PaymentKey(order.payment),
      payment_data |-> MaskedPaymentData(order.payment) ]

----------------------------------------------------------------------------
(* Initial state: tables created, catalog seeded, no order, no request *)

Init ==
    /\ categories = SeedCategories
    /\ items = SeedItems
    /\ orders = {}
    /\ order_items = {}
    /\ writer = NoProc
    /\ clock = ModuleLoadTime + 1
    /\ sess = [p \in Procs |-> IdleSession]

----------------------------------------------------------------------------
(* Helpers of the handlers *)

Me(p) == sess[p]

Finish(s, response) == [s EXCEPT !.pc = "done", !.response = response]

Traced(s, call) == [s EXCEPT !.trace = Append(@, call)]

Logged(s, entry) == [s EXCEPT !.log = @ \cup {entry}]

\* the except clauses of the create_order handlers: an HTTPException is
\* re-raised, a ValueError becomes 400 with str(e), anything else 500;
\* a direct caller of the repository sees the exception itself
Surface(entry, exc, detail) ==
    IF entry = "repository" THEN Raised(exc, detail)
    ELSE IF exc = "ValueError" THEN HTTPException(HTTP_400, detail)
    ELSE HTTPException(HTTP_500, [kind |-> "ProcessingError"])

\* mutant: the difference is compared without abs()
TotalMismatches_Signed(calculated_total, total) == calculated_total - total > Tolerance

\* abs(calculated_total - order.total) > 0.01
TotalMismatches(calculated_total, total) == Abs(calculated_total - total) > Tolerance

\* mutant: the except clause commits what was flushed instead of rolling back
RolledBack_KeepsFlushed(s) ==
    [ session |-> [s EXCEPT !.tx_order = {}, !.tx_lines = {}, !.pending = <<>>],
      orders |-> orders \cup s.tx_order, order_items |-> order_items \cup s.tx_lines ]

\* db.rollback() in the except clause of repository.create_order: the rows
\* of the session's transaction are discarded, the tables stay as committed
RolledBack(s) ==
    [ session |-> [s EXCEPT !.tx_order = {}, !.tx_lines = {}, !.pending = <<>>],
      orders |-> orders, order_items |-> order_items ]

Released(p) == IF writer = p THEN NoProc ELSE writer

\* the committed tables as a request finds them
Snapshot ==
    [orders |-> orders, order_items |-> order_items, categories |-> categories, items |-> items]

\* the total number of rows stored in categories, items and orders
StoredRows == Cardinality(categories) + Cardinality(items) + Cardinality(orders)

----------------------------------------------------------------------------
(* mutant: OrderCreate.items has min_length=1: an empty list is refused by  *)
(* the schema with 422 before the handler runs                              *)
Start_NonEmptyItems(p, request, limit) ==
    /\ Me(p).pc = "idle"
    /\ Cardinality(orders) < limit
    /\ sess' = [sess EXCEPT ![p] =
         LET s == [IdleSession EXCEPT
                     !.pc = IF request.entry = "repository" THEN "persist" ELSE "validate",
                     !.entry = request.entry, !.order = request.order, !.i = 1,
                     !.snap = Snapshot]
         IN  IF request.order.items = <<>>
             THEN Finish(s, HTTPException(422, [kind |-> "ValidationError"]))
             ELSE s]
    /\ UNCHANGED <<categories, items, clock, orders, order_items, writer>>

(* A request arrives; Depends(get_db) opens its session *)
Start(p, request, limit) ==
    /\ Me(p).pc = "idle"
    /\ Cardinality(orders) < limit
    /\ sess' = [sess EXCEPT ![p] =
                  [IdleSession EXCEPT
                     !.pc = IF request.entry = "repository" THEN "persist" ELSE "validate",
                     !.entry = request.entry, !.order = request.order, !.i = 1,
                     !.snap = Snapshot]]
    /\ UNCHANGED <<categories, items, clock, orders, order_items, writer>>

(* mutant: the loop does not test `if not item`; item.price of a missing   *)
(* item raises, which the handler turns into 500                           *)
Lookup_Unchecked(p) ==
    LET s == Me(p) IN
    /\ s.pc = "validate"
    /\ s.i <= Len(s.order.items)
    /\ LET order_item == s.order.items[s.i]
           item == get_item_by_id(order_item.item_id)
           t == Traced(s, Call("get_item_by_id", order_item.item_id, item # {}))
       IN  sess' = [sess EXCEPT ![p] =
             IF item = {}
             THEN Finish(t, HTTPException(HTTP_500, [kind |-> "ProcessingError"]))
             ELSE [t EXCEPT !.calculated_total =
                              @ + (CHOOSE it \in item : TRUE).price * order_item.quantity,
                            !.i = @ + 1]]
    /\ UNCHANGED <<categories, items, clock, orders, order_items, writer>>

(* mutant: the validation loop walks the lines from the last to the first *)
Lookup_Backwards(p) ==
    LET s == Me(p) IN
    /\ s.pc = "validate"
    /\ s.i <= Len(s.order.items)
    /\ LET order_item == s.order.items[Len(s.order.items) - s.i + 1]
           item == get_item_by_id(order_item.item_id)
           t == Traced(s, Call("get_item_by_id", order_item.item_id, item # {}))
       IN  sess' = [sess EXCEPT ![p] =
             IF item = {}
             THEN Finish(t, HTTPException(HTTP_400, ItemNotFound(order_item.item_id)))
             ELSE [t EXCEPT !.calculated_total =
                              @ + (CHOOSE it \in item : TRUE).price * order_item.quantity,
                            !.i = @ + 1]]
    /\ UNCHANGED <<categories, items, clock, orders, order_items, writer>>

(* One turn of the validation loop of create_order *)
Lookup(p) ==
    LET s == Me(p) IN
    /\ s.pc = "validate"
    /\ s.i <= Len(s.order.items)
    /\ LET order_item == s.order.items[s.i]
           item == get_item_by_id(order_item.item_id)
           t == Traced(s, Call("get_item_by_id", order_item.item_id, item # {}))
       IN  sess' = [sess EXCEPT ![p] =
             IF item = {}
             THEN Finish(t, HTTPException(HTTP_400, ItemNotFound(order_item.item_id)))
             ELSE [t EXCEPT !.calculated_total =
                              @ + (CHOOSE it \in item : TRUE).price * order_item.quantity,
                            !.i = @ + 1]]
    /\ UNCHANGED <<categories, items, clock, orders, order_items, writer>>

(* mutant: the declared total is not compared with the computed one *)
CheckTotal_Unchecked(p) ==
    LET s == Me(p) IN
    /\ s.pc = "validate"
    /\ s.i > Len(s.order.items)
    /\ LET t == Traced(s, Call("total_check", s.calculated_total, TRUE))
       IN  sess' = [sess EXCEPT ![p] =
             [t EXCEPT !.pc = IF s.entry = "service" THEN "pay" ELSE "persist"]]
    /\ UNCHANGED <<categories, items, clock, orders, order_items, writer>>

(* mutant: the handler of main.py compares the totals without tolerance *)
CheckTotal_MainExact(p) ==
    LET s == Me(p) IN
    /\ s.pc = "validate"
    /\ s.i > Len(s.order.items)
    /\ LET bad == IF s.entry = "main" THEN s.calculated_total # s.order.total
                  ELSE TotalMismatches(s.calculated_total, s.order.total)
           t == Traced(s, Call("total_check", s.calculated_total, ~bad))
       IN  sess' = [sess EXCEPT ![p] =
             IF bad
             THEN Finish(t, HTTPException(HTTP_400,
                                 TotalMismatch(s.calculated_total, s.order.total)))
             ELSE [t EXCEPT !.pc = IF s.entry = "service" THEN "pay" ELSE "persist"]]
    /\ UNCHANGED <<categories, items, clock, orders, order_items, writer>>

(* The total check of create_order, after the loop *)
CheckTotal(p) ==
    LET s == Me(p) IN
    /\ s.pc = "validate"
    /\ s.i > Len(s.order.items)
    /\ LET bad == TotalMismatches(s.calculated_total, s.order.total)
           t == Traced(s, Call("total_check", s.calculated_total, ~bad))
       IN  sess' = [sess EXCEPT ![p] =
             IF bad
             THEN Finish(t, HTTPException(HTTP_400,
                                 TotalMismatch(s.calculated_total, s.order.total)))
             ELSE [t EXCEPT !.pc = IF s.entry = "service" THEN "pay" ELSE "persist"]]
    /\ UNCHANGED <<categories, items, clock, orders, order_items, writer>>

(* mutant: the result of process_payment is not tested *)
Pay_IgnoresResult(p) ==
    LET s == Me(p) IN
    /\ s.pc = "pay"
    /\ \E installed \in AuthorizerKinds :
         LET approved == process_payment(installed, s.order.total, s.order.payment)
             t == Logged(Traced(s, Call("process_payment", s.order.total, approved)),
                         [site |-> "process_payment", level |-> "DEBUG",
                          fields |-> DOMAIN s.order.payment])
         IN  sess' = [sess EXCEPT ![p] = [t EXCEPT !.pc = "persist"]]
    /\ UNCHANGED <<categories, items, clock, orders, order_items, writer>>

(* OrderService.create_order: FakePaymentService.process_payment(order.total, ...) *)
Pay(p) ==
    LET s == Me(p) IN
    /\ s.pc = "pay"
    /\ \E installed \in AuthorizerKinds :
         LET approved == process_payment(installed, s.order.total, s.order.payment)
             t == Logged(Traced(s, Call("process_payment", s.order.total, approved)),
                         [site |-> "process_payment", level |-> "DEBUG",
                          fields |-> DOMAIN s.order.payment])
         IN  sess' = [sess EXCEPT ![p] =
               IF approved THEN [t EXCEPT !.pc = "persist"]
               ELSE Finish(t, HTTPException(HTTP_402, [kind |-> "PaymentFailed"]))]
    /\ UNCHANGED <<categories, items, clock, orders, order_items, writer>>

(* mutant: db.commit() in place of db.flush(): the header is committed at   *)
(* once, before any line is written                                        *)
FlushHeader_Commits(p) ==
    LET s == Me(p) IN
    /\ s.pc = "persist"
    /\ writer = NoProc
    /\ writer' = p
    /\ orders' = orders \cup {OrderRow(s.order)}
    /\ LET t == Logged(Traced(s, Call("repository.create_order", 0, TRUE)),
                       [site |-> "repository.create_order", level |-> "DEBUG",
                        fields |-> {"payment_key"}])
       IN  sess' = [sess EXCEPT ![p] =
                      [t EXCEPT !.pc = "lines", !.i = 1, !.tx_order = {OrderRow(s.order)}]]
    /\ UNCHANGED <<categories, items, clock, order_items>>

(* repository.create_order up to db.flush(): the header row is inserted in  *)
(* the session's transaction, which takes the write lock of the database   *)
FlushHeader(p) ==
    LET s == Me(p) IN
    /\ s.pc = "persist"
    /\ writer = NoProc
    /\ writer' = p
    /\ LET t == Logged(Traced(s, Call("repository.create_order", 0, TRUE)),
                       [site |-> "repository.create_order", level |-> "DEBUG",
                        fields |-> {"payment_key"}])
       IN  sess' = [sess EXCEPT ![p] =
                      [t EXCEPT !.pc = "lines", !.i = 1, !.tx_order = {OrderRow(s.order)}]]
    /\ UNCHANGED <<categories, items, clock, orders, order_items>>

(* mutant: the re-check reads the catalog as it was when the request      *)
(* began, not as it is now                                                 *)
AddLine_StaleCatalog(p) ==
    LET s == Me(p) IN
    /\ s.pc = "lines"
    /\ s.i <= Len(s.order.items)
    /\ LET item_data == s.order.items[s.i]
           item == { it \in s.snap.items : it.id = item_data.item_id }
           t == Traced(s, Call("get_item_by_id", item_data.item_id, item # {}))
       IN  IF item = {}
           THEN LET back == RolledBack(Traced(t, Call("rollback", item_data.item_id, TRUE)))
                IN  /\ sess' = [sess EXCEPT ![p] =
                          Finish(back.session,
                                 Surface(s.entry, "ValueError",
                                         ItemNotFound(item_data.item_id)))]
                    /\ orders' = back.orders
                    /\ order_items' = back.order_items
                    /\ writer' = Released(p)
           ELSE /\ sess' = [sess EXCEPT ![p] =
                      [t EXCEPT !.pending = Append(@, item_data), !.i = @ + 1]]
                /\ UNCHANGED <<orders, order_items, writer>>
    /\ UNCHANGED <<categories, items, clock>>

(* One turn of the line loop of repository.create_order *)
AddLine(p) ==
    LET s == Me(p) IN
    /\ s.pc = "lines"
    /\ s.i <= Len(s.order.items)
    /\ LET item_data == s.order.items[s.i]
           item == get_item_by_id(item_data.item_id)
           t == Traced(s, Call("get_item_by_id", item_data.item_id, item # {}))
       IN  IF item = {}
           THEN LET back == RolledBack(Traced(t, Call("rollback", item_data.item_id, TRUE)))
                IN  /\ sess' = [sess EXCEPT ![p] =
                          Finish(back.session,
                                 Surface(s.entry, "ValueError",
                                         ItemNotFound(item_data.item_id)))]
                    /\ orders' = back.orders
                    /\ order_items' = back.order_items
                    /\ writer' = Released(p)
           ELSE /\ sess' = [sess EXCEPT ![p] =
                      [t EXCEPT !.pending = Append(@, item_data), !.i = @ + 1]]
                /\ UNCHANGED <<orders, order_items, writer>>
    /\ UNCHANGED <<categories, items, clock>>

(* db.commit() begins by flushing the added lines, one INSERT each *)
FlushLine(p) ==
    LET s == Me(p) IN
    /\ s.pc = "lines"
    /\ s.i > Len(s.order.items)
    /\ s.pending # <<>>
    /\ LET item_data == Head(s.pending)
           db_order == CHOOSE r \in s.tx_order : TRUE
           row == [id |-> NextId(order_items \cup s.tx_lines), order_id |-> db_order.id,
                   item_id |-> item_data.item_id, quantity |-> item_data.quantity]
       IN  sess' = [sess EXCEPT ![p] =
                      [s EXCEPT !.pending = Tail(@), !.tx_lines = @ \cup {row}]]
    /\ UNCHANGED <<categories, items, clock, orders, order_items, writer>>

(* mutant: a submission whose payment_key and total are those of a stored  *)
(* order is answered with that order and adds nothing                      *)
Commit_Idempotent(p) ==
    LET s == Me(p)
        db_order == CHOOSE r \in s.tx_order : TRUE
        same == { r \in orders : r.payment_key = db_order.payment_key /\ r.total = db_order.total }
        kept == IF same = {} THEN db_order ELSE CHOOSE r \in same : TRUE
    IN
    /\ s.pc = "lines"
    /\ s.i > Len(s.order.items)
    /\ s.pending = <<>>
    /\ orders' = IF same = {} THEN orders \cup s.tx_order ELSE orders
    /\ order_items' = IF same = {} THEN order_items \cup s.tx_lines ELSE order_items
    /\ writer' = Released(p)
    /\ clock' = clock + 1
    /\ LET t == Traced(s, Call("commit", kept.id, TRUE))
       IN  sess' = [sess EXCEPT ![p] =
             Finish([t EXCEPT !.tx_order = {}, !.tx_lines = {}],
                    Returned(IF s.entry = "repository"
                             THEN OrmOrder(kept, order_items')
                             ELSE OrderSchema(kept, order_items')))]
    /\ UNCHANGED <<categories, items>>

(* db.commit() and db.refresh(db_order): the transaction becomes visible *)
Commit(p) ==
    LET s == Me(p) IN
    /\ s.pc = "lines"
    /\ s.i > Len(s.order.items)
    /\ s.pending = <<>>
    /\ orders' = orders \cup s.tx_order
    /\ order_items' = order_items \cup s.tx_lines
    /\ writer' = Released(p)
    /\ clock' = clock + 1
    /\ LET db_order == CHOOSE r \in s.tx_order : TRUE
           t == Traced(s, Call("commit", db_order.id, TRUE))
       IN  sess' = [sess EXCEPT ![p] =
             Finish([t EXCEPT !.tx_order = {}, !.tx_lines = {}],
                    Returned(IF s.entry = "repository"
                             THEN OrmOrder(db_order, order_items')
                             ELSE OrderSchema(db_order, order_items')))]
    /\ UNCHANGED <<categories, items>>

(* The store fails on an INSERT or on COMMIT (the simulated store of the   *)
(* spec): the except clause rolls back and re-raises                        *)
StoreFails(p) ==
    LET s == Me(p) IN
    /\ \/ s.pc = "persist" /\ writer = NoProc
       \/ s.pc = "lines" /\ s.i > Len(s.order.items)
    /\ \E exc \in StoreExceptions :
         LET t == IF s.pc = "persist"
                  THEN Traced(s, Call("repository.create_order", 0, FALSE))
                  ELSE s
             back == RolledBack(Traced(t, Call("store_failure", Cardinality(s.tx_lines), FALSE)))
         IN  /\ sess' = [sess EXCEPT ![p] =
                   Finish(back.session, Surface(s.entry, exc, [kind |-> "StoreFailure"]))]
             /\ orders' = back.orders
             /\ order_items' = back.order_items
    /\ writer' = Released(p)
    /\ UNCHANGED <<categories, items, clock>>

(* The header INSERT finds the database locked by another session until    *)
(* the busy timeout: OperationalError, handled like any store failure      *)
Locked(p) ==
    LET s == Me(p) IN
    /\ s.pc = "persist"
    /\ writer \notin {NoProc, p}
    /\ LET back == RolledBack(Traced(Traced(s, Call("repository.create_order", 0, FALSE)),
                                     Call("database_locked", 0, FALSE)))
       IN  /\ sess' = [sess EXCEPT ![p] =
                 Finish(back.session,
                        Surface(s.entry, "OperationalError", [kind |-> "StoreFailure"]))]
           /\ orders' = back.orders
           /\ order_items' = back.order_items
    /\ UNCHANGED <<categories, items, clock, writer>>

(* mutant: the query has no filter on the id: .first() of all orders        *)
GetOrder_Unfiltered(p, order_id) ==
    LET s == Me(p)
        order == orders
    IN
    /\ s.pc = "idle"
    /\ sess' = [sess EXCEPT ![p] =
          Finish([IdleSession EXCEPT !.entry = "get_order", !.i = order_id,
                     !.snap = Snapshot],
                 IF order = {}
                 THEN HTTPException(HTTP_404, [kind |-> "OrderNotFound"])
                 ELSE Returned(OrderSchema(CHOOSE r \in order : \A q \in order : r.id <= q.id,
                                           order_items)))]
    /\ UNCHANGED <<categories, items, clock, orders, order_items, writer>>

(* get_order: repository.get_order_by_id, 404 when there is no such order  *)
GetOrder(p, order_id) ==
    LET s == Me(p)
        order == { r \in orders : r.id = order_id }
    IN
    /\ s.pc = "idle"
    /\ sess' = [sess EXCEPT ![p] =
          Finish([IdleSession EXCEPT !.entry = "get_order", !.i = order_id,
                     !.snap = Snapshot],
                 IF order = {}
                 THEN HTTPException(HTTP_404, [kind |-> "OrderNotFound"])
                 ELSE Returned(OrderSchema(CHOOSE r \in order : TRUE, order_items)))]
    /\ UNCHANGED <<categories, items, clock, orders, order_items, writer>>

----------------------------------------------------------------------------
(* The admin service *)

\* repository.get_categories: all rows of categories
get_categories == categories

\* repository.get_items: `if category_id:` filters, so None and 0 do not
get_items(category_id) ==
    IF category_id = 0 THEN items ELSE { it \in items : it.category_id = category_id }

\* f"Category with ID {item.category_id} does not exist"
CategoryNotFound(category_id) == [kind |-> "CategoryNotFound", category_id |-> category_id]

\* except Exception in AdminService: 500 "An error occurred while creating ..."
AdminError == HTTPException(HTTP_500, [kind |-> "AdminError"])

(* A create_category or create_item request arrives *)
StartAdmin(p, entry, request) ==
    /\ Me(p).pc = "idle"
    /\ StoredRows < MaxRows
    /\ sess' = [sess EXCEPT ![p] =
                  [IdleSession EXCEPT !.pc = "admin_validate", !.entry = entry,
                                      !.admin = request, !.snap = Snapshot]]
    /\ UNCHANGED <<categories, items, clock, orders, order_items, writer>>

(* AdminService.create_category up to the call of the repository *)
ValidateCategory(p) ==
    LET s == Me(p)
        category == s.admin
    IN
    /\ s.pc = "admin_validate"
    /\ s.entry = "create_category"
    /\ LET t == Traced(s, Call("get_categories", 0, TRUE)) IN
       sess' = [sess EXCEPT ![p] =
         IF category.name = <<>> \/ Strip(category.name) = <<>>
         THEN Finish(s, HTTPException(HTTP_400, [kind |-> "NameRequired"]))
         ELSE IF Len(Strip(category.name)) > MaxCategoryName
         THEN Finish(s, HTTPException(HTTP_400, [kind |-> "NameTooLong"]))
         ELSE IF \E cat \in get_categories : Lower(cat.name) = Lower(Strip(category.name))
         THEN Finish(t, HTTPException(HTTP_400, [kind |-> "CategoryExists"]))
         ELSE IF category.image # <<>> /\ Len(category.image) > MaxImageName
         THEN Finish(t, HTTPException(HTTP_400, [kind |-> "ImageTooLong"]))
         ELSE [t EXCEPT !.pc = "admin_persist"]]
    /\ UNCHANGED <<categories, items, clock, orders, order_items, writer>>

(* mutant: categories.name is not declared unique *)
PersistCategory_NotUnique(p) ==
    LET s == Me(p)
        category == s.admin
        db_category == [id |-> NextId(categories), name |-> category.name,
                        image |-> category.image]
        t == Traced(s, Call("repository.create_category", 0, TRUE))
    IN
    /\ s.pc = "admin_persist"
    /\ s.entry = "create_category"
    /\ IF writer # NoProc
       THEN /\ sess' = [sess EXCEPT ![p] = Finish(Traced(t, Call("rollback", 0, TRUE)), AdminError)]
            /\ UNCHANGED categories
       ELSE /\ categories' = categories \cup {db_category}
            /\ sess' = [sess EXCEPT ![p] = Finish(t, Returned(db_category))]
    /\ UNCHANGED <<items, clock, orders, order_items, writer>>

(* repository.create_category: add, commit, refresh; categories.name is     *)
(* unique, and a failing commit is rolled back and surfaces as 500          *)
PersistCategory(p) ==
    LET s == Me(p)
        category == s.admin
        db_category == [id |-> NextId(categories), name |-> category.name,
                        image |-> category.image]
        t == Traced(s, Call("repository.create_category", 0, TRUE))
    IN
    /\ s.pc = "admin_persist"
    /\ s.entry = "create_category"
    /\ IF writer # NoProc \/ \E cat \in categories : cat.name = category.name
       THEN /\ sess' = [sess EXCEPT ![p] = Finish(Traced(t, Call("rollback", 0, TRUE)), AdminError)]
            /\ UNCHANGED categories
       ELSE /\ categories' = categories \cup {db_category}
            /\ sess' = [sess EXCEPT ![p] = Finish(t, Returned(db_category))]
    /\ UNCHANGED <<items, clock, orders, order_items, writer>>



(* mutant: create_item does not test that the category exists *)
ValidateItem_AnyCategory(p) ==
    LET s == Me(p)
        item == s.admin
    IN
    /\ s.pc = "admin_validate"
    /\ s.entry = "create_item"
    /\ LET t == Traced(s, Call("get_categories", 0, TRUE))
           u == Traced(t, Call("get_items", item.category_id, TRUE))
       IN
       sess' = [sess EXCEPT ![p] =
         IF item.name = <<>> \/ Strip(item.name) = <<>>
         THEN Finish(s, HTTPException(HTTP_400, [kind |-> "NameRequired"]))
         ELSE IF Len(Strip(item.name)) > MaxItemName
         THEN Finish(s, HTTPException(HTTP_400, [kind |-> "NameTooLong"]))
         ELSE IF item.price <= 0
         THEN Finish(s, HTTPException(HTTP_400, [kind |-> "PriceNotPositive"]))
         ELSE IF \E existing_item \in get_items(item.category_id) :
                    Lower(existing_item.name) = Lower(Strip(item.name))
         THEN Finish(u, HTTPException(HTTP_400, [kind |-> "ItemExists"]))
         ELSE IF item.image_id # <<>> /\ Len(item.image_id) > MaxImageName
         THEN Finish(u, HTTPException(HTTP_400, [kind |-> "ImageTooLong"]))
         ELSE [u EXCEPT !.pc = "admin_persist"]]
    /\ UNCHANGED <<categories, items, clock, orders, order_items, writer>>

(* AdminService.create_item up to the call of the repository *)
ValidateItem(p) ==
    LET s == Me(p)
        item == s.admin
    IN
    /\ s.pc = "admin_validate"
    /\ s.entry = "create_item"
    /\ LET t == Traced(s, Call("get_categories", 0, TRUE))
           u == Traced(t, Call("get_items", item.category_id, TRUE))
       IN
       sess' = [sess EXCEPT ![p] =
         IF item.name = <<>> \/ Strip(item.name) = <<>>
         THEN Finish(s, HTTPException(HTTP_400, [kind |-> "NameRequired"]))
         ELSE IF Len(Strip(item.name)) > MaxItemName
         THEN Finish(s, HTTPException(HTTP_400, [kind |-> "NameTooLong"]))
         ELSE IF item.price <= 0
         THEN Finish(s, HTTPException(HTTP_400, [kind |-> "PriceNotPositive"]))
         ELSE IF ~\E cat \in get_categories : cat.id = item.category_id
         THEN Finish(t, HTTPException(HTTP_400, CategoryNotFound(item.category_id)))
         ELSE IF \E existing_item \in get_items(item.category_id) :
                    Lower(existing_item.name) = Lower(Strip(item.name))
         THEN Finish(u, HTTPException(HTTP_400, [kind |-> "ItemExists"]))
         ELSE IF item.image_id # <<>> /\ Len(item.image_id) > MaxImageName
         THEN Finish(u, HTTPException(HTTP_400, [kind |-> "ImageTooLong"]))
         ELSE [u EXCEPT !.pc = "admin_persist"]]
    /\ UNCHANGED <<categories, items, clock, orders, order_items, writer>>

(* repository.create_item: add, commit, refresh *)
PersistItem(p) ==
    LET s == Me(p)
        item == s.admin
        db_item == [id |-> NextId(items), category_id |-> item.category_id,
                    name |-> item.name, price |-> item.price, image_id |-> item.image_id]
        t == Traced(s, Call("repository.create_item", 0, TRUE))
    IN
    /\ s.pc = "admin_persist"
    /\ s.entry = "create_item"
    /\ IF writer # NoProc
       THEN /\ sess' = [sess EXCEPT ![p] = Finish(Traced(t, Call("rollback", 0, TRUE)), AdminError)]
            /\ UNCHANGED items
       ELSE /\ items' = items \cup {db_item}
            /\ sess' = [sess EXCEPT ![p] = Finish(t, Returned(db_item))]
    /\ UNCHANGED <<categories, clock, orders, order_items, writer>>

(* The store fails in repository.create_category or create_item: rolled    *)
(* back, re-raised, and turned into 500 by the service                     *)
AdminStoreFails(p) ==
    LET s == Me(p) IN
    /\ s.pc = "admin_persist"
    /\ sess' = [sess EXCEPT ![p] =
          Finish(Traced(Traced(s, Call("store_failure", 0, FALSE)), Call("rollback", 0, TRUE)),
                 AdminError)]
    /\ UNCHANGED <<categories, items, clock, orders, order_items, writer>>

(* The menu reads: GET /categories, /menu, /items and /items/{item_id} *)

\* the query parameter category_id of GET /items: absent, or an integer
ItemQuery(given, category_id) == [given |-> given, category_id |-> category_id]

\* no category_id, 0, the seeded category, the first added one, one never assigned
ItemQueries == { ItemQuery(FALSE, 0) } \cup { ItemQuery(TRUE, c) : c \in {0, 1, 2, 9} }

\* a read answers at once: the session is opened, queried and the result returned
Answered(entry, request, response) ==
    Finish([IdleSession EXCEPT !.entry = entry, !.admin = request, !.snap = Snapshot], response)

(* MenuService.get_categories *)
GetCategories(p) ==
    /\ Me(p).pc = "idle"
    /\ sess' = [sess EXCEPT ![p] = Answered("get_categories", NoAdmin, Returned(get_categories))]
    /\ UNCHANGED <<categories, items, clock, orders, order_items, writer>>

(* MenuService.get_menu: all categories and all items *)
GetMenu(p) ==
    /\ Me(p).pc = "idle"
    /\ sess' = [sess EXCEPT ![p] =
          Answered("get_menu", NoAdmin,
                   Returned([categories |-> get_categories, items |-> get_items(0)]))]
    /\ UNCHANGED <<categories, items, clock, orders, order_items, writer>>

(* MenuService.get_items: category_id=None when the parameter is absent;   *)
(* None and 0 are both falsy in `if category_id:`                          *)
GetItems(p, query) ==
    /\ Me(p).pc = "idle"
    /\ sess' = [sess EXCEPT ![p] =
          Answered("get_items", query,
                   Returned(get_items(IF query.given THEN query.category_id ELSE 0)))]
    /\ UNCHANGED <<categories, items, clock, orders, order_items, writer>>

(* MenuService.get_item_by_id: 404 when there is no such item *)
GetItem(p, item_id) ==
    /\ Me(p).pc = "idle"
    /\ sess' = [sess EXCEPT ![p] =
          Answered("get_item", [item_id |-> item_id],
                   IF get_item_by_id(item_id) = {}
                   THEN HTTPException(HTTP_404, [kind |-> "ItemNotFound404"])
                   ELSE Returned(CHOOSE it \in get_item_by_id(item_id) : TRUE))]
    /\ UNCHANGED <<categories, items, clock, orders, order_items, writer>>

(* The response is sent and get_db closes the session of the request *)
Close(p) ==
    /\ Me(p).pc = "done"
    /\ sess' = [sess EXCEPT ![p] = IdleSession]
    /\ UNCHANGED <<categories, items, clock, orders, order_items, writer>>

----------------------------------------------------------------------------
(* One worker, one request at a time *)

Next ==
    \/ \E r \in RequestInputs : Start("w1", r, MaxOrders)
    \/ Lookup("w1")
    \/ CheckTotal("w1")
    \/ Pay("w1")
    \/ FlushHeader("w1")
    \/ AddLine("w1")
    \/ FlushLine("w1")
    \/ Commit("w1")
    \/ StoreFails("w1")
    \/ \E n \in 1..(MaxOrders + 1) : GetOrder("w1", n)
    \/ Close("w1")

Spec == Init /\ [][Next]_vars

(* Concurrent workers serving orders and the administration of the menu *)

\* two spellings of one new category name, sent by either worker
ConcCategoryInputs == { CategoryCreate(n, <<>>) : n \in { <<"D">>, <<"d">> } }

\* the item that becomes item 3 of the catalog
ConcItemInputs == { ItemCreate(<<"Z">>, AddedPrice, <<>>, 1) }

\* orders of the item being added, alone and after a seeded item
ConcAdminOrderInputs ==
    { Request("service", OrderCreate(<<[item_id |-> 3, quantity |-> 1]>>, AddedPrice,
                                     DefaultPayment)),
      Request("service", OrderCreate(<<[item_id |-> 1, quantity |-> 2], [item_id |-> 3, quantity |-> 1]>>,
                                     4396 + AddedPrice, DefaultPayment)) }

NextAdminConc ==
    \E p \in Procs :
        \/ \E r \in ConcAdminOrderInputs :
              Start(p, r, MaxRows - Cardinality(categories) - Cardinality(items))
        \/ Lookup(p)
        \/ CheckTotal(p)
        \/ Pay(p)
        \/ FlushHeader(p)
        \/ AddLine(p)
        \/ FlushLine(p)
        \/ Commit(p)
        \/ StoreFails(p)
        \/ Locked(p)
        \/ \E c \in ConcCategoryInputs : StartAdmin(p, "create_category", c)
        \/ \E i \in ConcItemInputs : StartAdmin(p, "create_item", i)
        \/ ValidateCategory(p)
        \/ PersistCategory(p)
        \/ ValidateItem(p)
        \/ PersistItem(p)
        \/ AdminStoreFails(p)
        \/ Close(p)

SpecAdminConc == Init /\ [][NextAdminConc]_vars

(* Collaborators that raise during validation or authorization *)

\* what the except clauses of create_order see when a collaborator raises
CollaboratorExceptions == StoreExceptions

(* repository.get_item_by_id raises in the validation loop: the query      *)
(* fails, nothing was written, the except clauses answer                   *)
LookupFails(p) ==
    LET s == Me(p) IN
    /\ s.pc = "validate"
    /\ s.i <= Len(s.order.items)
    /\ \E exc \in CollaboratorExceptions :
         LET t == Traced(Traced(s, Call("get_item_by_id", s.order.items[s.i].item_id, FALSE)),
                         Call("exception", s.i, FALSE))
         IN  sess' = [sess EXCEPT ![p] =
                        Finish(t, Surface(s.entry, exc, [kind |-> "CollaboratorFailure"]))]
    /\ UNCHANGED <<categories, items, clock, orders, order_items, writer>>

(* the payment authorizer raises instead of answering *)
PayFails(p) ==
    LET s == Me(p) IN
    /\ s.pc = "pay"
    /\ \E exc \in CollaboratorExceptions :
         LET t == Traced(Traced(s, Call("process_payment", s.order.total, FALSE)),
                         Call("exception", 0, FALSE))
         IN  sess' = [sess EXCEPT ![p] =
                        Finish(t, Surface(s.entry, exc, [kind |-> "CollaboratorFailure"]))]
    /\ UNCHANGED <<categories, items, clock, orders, order_items, writer>>

NextFaults ==
    \/ Next
    \/ LookupFails("w1")
    \/ PayFails("w1")

SpecFaults == Init /\ [][NextFaults]_vars

(* Concurrent workers, each on its own session *)

NextConc ==
    \E p \in Procs :
        \/ \E r \in ConcRequestInputs : Start(p, r, MaxConcOrders)
        \/ Lookup(p)
        \/ CheckTotal(p)
        \/ Pay(p)
        \/ FlushHeader(p)
        \/ AddLine(p)
        \/ FlushLine(p)
        \/ Commit(p)
        \/ StoreFails(p)
        \/ Locked(p)
        \/ \E n \in 1..(MaxConcOrders + 1) : GetOrder(p, n)
        \/ Close(p)

SpecConc == Init /\ [][NextConc]_vars

(* One worker serving orders and the administration of the menu *)

NextAdmin ==
    \/ \E r \in AdminOrderInputs :
          Start("w1", r, MaxRows - Cardinality(categories) - Cardinality(items))
    \/ Lookup("w1")
    \/ CheckTotal("w1")
    \/ Pay("w1")
    \/ FlushHeader("w1")
    \/ AddLine("w1")
    \/ FlushLine("w1")
    \/ Commit("w1")
    \/ StoreFails("w1")
    \/ \E n \in 1..(MaxRows - Cardinality(SeedCategories) - Cardinality(SeedItems) + 1) :
          GetOrder("w1", n)
    \/ \E c \in CategoryInputs : StartAdmin("w1", "create_category", c)
    \/ \E i \in ItemInputs : StartAdmin("w1", "create_item", i)
    \/ ValidateCategory("w1")
    \/ PersistCategory("w1")
    \/ ValidateItem("w1")
    \/ PersistItem("w1")
    \/ AdminStoreFails("w1")
    \/ GetCategories("w1")
    \/ GetMenu("w1")
    \/ \E q \in ItemQueries : GetItems("w1", q)
    \/ \E n \in {1, 3, 999} : GetItem("w1", n)
    \/ Close("w1")

SpecAdmin == Init /\ [][NextAdmin]_vars

----------------------------------------------------------------------------
(* Vocabulary of the properties *)

InCatalog(item_id) == \E it \in items : it.id = item_id

PriceOf(item_id) == (CHOOSE it \in items : it.id = item_id).price

MissingLines(order) ==
    { k \in 1..Len(order.items) : ~InCatalog(order.items[k].item_id) }

\* sum(item.price * quantity) over the lines of an order whose items all exist
RECURSIVE CatalogTotal(_)
CatalogTotal(lines) ==
    IF lines = <<>> THEN 0
    ELSE PriceOf(Head(lines).item_id) * Head(lines).quantity + CatalogTotal(Tail(lines))

CallsOf(s, name) == { k \in 1..Len(s.trace) : s.trace[k].call = name }

Denied(s) == \E k \in CallsOf(s, "process_payment") : ~s.trace[k].result

StoreFailed(s) ==
    CallsOf(s, "store_failure") \cup CallsOf(s, "database_locked") # {}

NothingPending(s) == s.tx_order = {} /\ s.tx_lines = {} /\ s.pending = <<>>

TablesAsAtStart(s) == orders = s.snap.orders /\ order_items = s.snap.order_items

StoredRow(order_id) == CHOOSE r \in orders : r.id = order_id

TheBody(s) == CHOOSE b \in s.response.body : TRUE

Succeeded(s) == s.pc = "done" /\ s.response.status = HTTP_200

----------------------------------------------------------------------------
(* C1: an order submitted to OrderService.create_order whose items all    *)
(* exist and whose declared total is within 0.01 of sum(price * quantity), *)
(* with payment approved and the store working, is created, and the total  *)
(* stored and returned is sum(price * quantity) exactly, not the declared  *)
(* total.                                                                  *)
C1_StoredTotalIsComputed ==
    \A p \in Procs :
        LET s == sess[p] IN
        ( /\ s.pc = "done"
          /\ s.entry = "service"
          /\ MissingLines(s.order) = {}
          /\ Abs(CatalogTotal(s.order.items) - s.order.total) <= Tolerance
          /\ ~Denied(s)
          /\ ~StoreFailed(s) )
        => /\ s.response.status = HTTP_200
           /\ TheBody(s).total = CatalogTotal(s.order.items)
           /\ StoredRow(TheBody(s).id).total = CatalogTotal(s.order.items)

(* C2: an order naming an item id absent from the catalog is rejected by   *)
(* OrderService.create_order with 400 and a detail naming an absent item   *)
(* id of the order; at no point of the request is the payment authorizer   *)
(* or repository.create_order called, and the tables stay as they were.    *)
C2_MissingItemRejected ==
    \A p \in Procs :
        LET s == sess[p] IN
        (s.entry = "service" /\ MissingLines(s.order) # {})
        => /\ CallsOf(s, "process_payment") = {}
           /\ CallsOf(s, "repository.create_order") = {}
           /\ NothingPending(s)
           /\ TablesAsAtStart(s)
           /\ s.pc \in {"validate", "done"}
           /\ s.pc = "done" =>
                /\ s.response.status = HTTP_400
                /\ s.response.detail.kind = "ItemNotFound"
                /\ \E k \in MissingLines(s.order) :
                       s.response.detail.item_id = s.order.items[k].item_id

C2_Witness ==
    \E p \in Procs :
        LET s == sess[p] IN
        /\ s.pc = "done"
        /\ s.entry = "service"
        /\ MissingLines(s.order) = {2}
        /\ s.response.status = HTTP_400
        /\ s.response.detail = ItemNotFound(999)

(* C3: an order whose items all exist and whose declared total differs     *)
(* from the computed total by more than 0.01 is rejected by                *)
(* OrderService.create_order with 400 "Total mismatch" carrying the        *)
(* computed and the declared value; the authorizer is not called and no    *)
(* order row is stored.                                                    *)
C3_TotalMismatchRejected ==
    \A p \in Procs :
        LET s == sess[p] IN
        ( /\ s.entry = "service"
          /\ MissingLines(s.order) = {}
          /\ Abs(CatalogTotal(s.order.items) - s.order.total) > Tolerance )
        => /\ CallsOf(s, "process_payment") = {}
           /\ CallsOf(s, "repository.create_order") = {}
           /\ NothingPending(s)
           /\ TablesAsAtStart(s)
           /\ s.pc = "done" =>
                s.response = HTTPException(HTTP_400,
                    TotalMismatch(CatalogTotal(s.order.items), s.order.total))

C3_Witness ==
    \E p \in Procs :
        LET s == sess[p] IN
        /\ s.pc = "done"
        /\ s.entry = "service"
        /\ s.order.items = ScenarioLines
        /\ s.order.total = CatalogTotal(ScenarioLines) + Tolerance + 1
        /\ s.response.status = HTTP_400
        /\ s.response.detail.kind = "TotalMismatch"

(* C4: when the authorizer denies an order that passed the item and total  *)
(* checks, OrderService.create_order rejects with 402 "Payment processing  *)
(* failed", repository.create_order is never called and no order header or *)
(* line is stored.                                                         *)
C4_DenialRejected ==
    \A p \in Procs :
        LET s == sess[p] IN
        (s.entry = "service" /\ Denied(s))
        => /\ s.pc = "done"
           /\ s.response = HTTPException(HTTP_402, [kind |-> "PaymentFailed"])
           /\ CallsOf(s, "repository.create_order") = {}
           /\ NothingPending(s)
           /\ TablesAsAtStart(s)

C4_Witness ==
    \E p \in Procs :
        LET s == sess[p] IN
        /\ s.pc = "done"
        /\ s.entry = "service"
        /\ Denied(s)
        /\ CallsOf(s, "total_check") # {}
        /\ s.response.status = HTTP_402

(* C5: on every order-creation entry point (OrderService.create_order and  *)
(* the create_order handler of main.py) the authorizer is called exactly   *)
(* once per attempt that passes the total check, after the total check and *)
(* before persistence, so no order is stored without a preceding approving *)
(* authorizer call of the same submission.                                 *)
C5_AuthorizedBeforePersist ==
    \A p \in Procs :
        LET s == sess[p] IN
        s.entry \in {"service", "main"}
        => /\ Cardinality(CallsOf(s, "process_payment")) <= 1
           /\ \A k \in CallsOf(s, "process_payment") :
                  \E j \in CallsOf(s, "total_check") : j < k
           /\ \A k \in CallsOf(s, "repository.create_order") \cup CallsOf(s, "commit") :
                  \E j \in CallsOf(s, "process_payment") : j < k /\ s.trace[j].result

(* C6: repository.create_order is all-or-nothing: when it fails after the  *)
(* header (and possibly some lines) were flushed, nothing of the           *)
(* submission remains in the tables or in the session's transaction, and   *)
(* the failure is raised to the caller.                                    *)
C6_AllOrNothing ==
    \A p \in Procs :
        LET s == sess[p] IN
        ( /\ s.pc = "done"
          /\ CallsOf(s, "repository.create_order") # {}
          /\ CallsOf(s, "commit") = {} )
        => /\ NothingPending(s)
           /\ TablesAsAtStart(s)
           /\ writer # p
           /\ s.response.raised # "none"
           /\ s.response.status # HTTP_200
           /\ s.response.body = {}

\* the store failed on the second of two lines, after header and first line
C6_Witness ==
    \E p \in Procs :
        LET s == sess[p] IN
        /\ s.pc = "done"
        /\ Len(s.order.items) = 2
        /\ \E k \in CallsOf(s, "store_failure") : s.trace[k].arg = 1
        /\ s.response.raised # "none"

LineRows(order_id, table) == { l \in table : l.order_id = order_id }

LinesOf(order_id, table) ==
    LET rows == SortedById(LineRows(order_id, table))
    IN  [ k \in 1..Len(rows) |-> [item_id |-> rows[k].item_id, quantity |-> rows[k].quantity] ]

(* C7: under any interleaving of concurrent create_order requests and      *)
(* readers, an order becomes visible only in the commit of its own         *)
(* successful request and then has exactly the lines of that submission;   *)
(* the lines of a visible order never change, every visible line belongs   *)
(* to a visible order, and no two visible orders share an id.              *)
C7_VisibleOrdersComplete ==
    [][ /\ \A r \in orders :
              /\ r \in orders'
              /\ LineRows(r.id, order_items') = LineRows(r.id, order_items)
        /\ \A r \in orders' \ orders :
              /\ orders' \ orders = {r}
              /\ \E p \in Procs :
                    /\ sess[p].pc = "lines"
                    /\ Succeeded(sess'[p])
                    /\ TheBody(sess'[p]).id = r.id
                    /\ LinesOf(r.id, order_items') = sess[p].order.items
        /\ \A l \in order_items' :
              \E r \in orders' : l.order_id = r.id
        /\ \A r1, r2 \in orders' : r1.id = r2.id => r1 = r2
      ]_vars

\* one worker committed its order while the other was turned away by the lock
C7_Witness ==
    \E p, q \in Procs :
        /\ p # q
        /\ Succeeded(sess[p])
        /\ sess[p].entry = "service"
        /\ Len(sess[p].order.items) = 2
        /\ sess[q].pc = "done"
        /\ CallsOf(sess[q], "database_locked") # {}
        /\ Cardinality(orders) = 1

StringFields(payment_data) ==
    {payment_data.card_number, payment_data.card_holder_name, payment_data.cvv}

(* C8: for a card number of any length, the stored payment summary's       *)
(* card_number is the mask "**** **** **** " followed by the last 4 digits *)
(* of the card number, and the stored payment_data does not contain the    *)
(* full card number.                                                       *)
C8_CardNumberMasked ==
    \A p \in Procs :
        LET s == sess[p] IN
        (Succeeded(s) /\ s.entry \in {"service", "main", "repository"})
        => LET stored == StoredRow(TheBody(s).id).payment_data
               card == s.order.payment.card_number
           IN  /\ Len(stored.card_number) = Len(Mask) + 4
               /\ SubSeq(stored.card_number, 1, Len(Mask)) = Mask
               /\ SubSeq(stored.card_number, Len(Mask) + 1, Len(Mask) + 4)
                     = SubSeq(card, Len(card) - 3, Len(card))
               /\ \A f \in StringFields(stored) : ~Contains(f, card)

(* C9: the security code of a submitted order is dropped: it is in no      *)
(* stored order record and in no log message of a create_order execution.  *)
C9_CvvDropped ==
    /\ \A r \in orders : "cvv" \notin DOMAIN r.payment_data
    /\ \A p \in Procs : \A r \in sess[p].tx_order : "cvv" \notin DOMAIN r.payment_data
    /\ \A p \in Procs : \A e \in sess[p].log : "cvv" \notin e.fields

(* C10: the order returned to the client by create_order and by get_order  *)
(* consists of id, timestamp, total, payment_key and order_items only; it  *)
(* carries no card number, cvv, billing address or payment_data.           *)
C10_ResponseFields ==
    \A p \in Procs :
        LET s == sess[p] IN
        (Succeeded(s) /\ s.entry \in {"service", "main", "get_order"})
        => \A b \in s.response.body :
              /\ DOMAIN b = {"id", "timestamp", "total", "payment_key", "order_items"}
              /\ DOMAIN b \cap {"card_number", "cvv", "billing_address", "payment_data"} = {}
              /\ b.payment_key \notin
                    {s.order.payment.card_number, s.order.payment.cvv}
              /\ \A k \in 1..Len(b.order_items) :
                    DOMAIN b.order_items[k]
                        \cap {"card_number", "cvv", "billing_address", "payment_data"} = {}

\* an order submitted with a billing address was created and returned
C10_Witness ==
    \E p \in Procs :
        LET s == sess[p] IN
        /\ Succeeded(s)
        /\ s.entry = "service"
        /\ s.order.payment.billing_address.given
        /\ TheBody(s).order_items # <<>>

CreateEntries == {"service", "main", "repository"}

\* the last four characters of a card number, all of it when it is shorter
LastFour(card) == SubSeq(card, IF Len(card) > 4 THEN Len(card) - 3 ELSE 1, Len(card))

IsHex(c) == c \in { HexDigits[k] : k \in 1..Len(HexDigits) }

(* C11: the payment_key is a function of the last 4 digits of the card     *)
(* number and the cardholder name only: two created orders that agree on   *)
(* both get the same payment_key whatever the rest of the card number, the *)
(* cvv, the expiry, the items or the total are; and every payment_key,     *)
(* stored or returned, has exactly 16 hexadecimal characters.              *)
C11_PaymentKeyOfLast4AndHolder ==
    /\ \A p, q \in Procs :
          LET s == sess[p]
              u == sess[q]
          IN  ( /\ Succeeded(s) /\ s.entry \in CreateEntries
                /\ Succeeded(u) /\ u.entry \in CreateEntries
                /\ LastFour(s.order.payment.card_number) = LastFour(u.order.payment.card_number)
                /\ s.order.payment.card_holder_name = u.order.payment.card_holder_name )
              => /\ TheBody(s).payment_key = TheBody(u).payment_key
                 /\ StoredRow(TheBody(s).id).payment_key = StoredRow(TheBody(u).id).payment_key
    /\ \A r \in orders \cup UNION { sess[p].tx_order : p \in Procs } :
          /\ Len(r.payment_key) = 16
          /\ \A k \in 1..Len(r.payment_key) : IsHex(r.payment_key[k])
    /\ \A p \in Procs :
          (Succeeded(sess[p]) /\ sess[p].entry \in CreateEntries \cup {"get_order"})
          => /\ Len(TheBody(sess[p]).payment_key) = 16
             /\ \A k \in 1..16 : IsHex(TheBody(sess[p]).payment_key[k])

\* two orders were created from cards that differ before the last four
\* digits, with different cvv, items and total
C11_Witness ==
    \E p, q \in Procs :
        LET s == sess[p]
            u == sess[q]
        IN  /\ Succeeded(s) /\ s.entry \in CreateEntries
            /\ Succeeded(u) /\ u.entry \in CreateEntries
            /\ s.order.payment.card_number # u.order.payment.card_number
            /\ s.order.payment.cvv # u.order.payment.cvv
            /\ s.order.items # u.order.items
            /\ s.order.total # u.order.total
            /\ LastFour(s.order.payment.card_number) = LastFour(u.order.payment.card_number)
            /\ TheBody(s).id # TheBody(u).id

\* id, timestamp, total, payment_key and line items of a returned order are
\* those of the header row and of its lines in the given line table
SameOrder(body, row, table) ==
    /\ body.id = row.id
    /\ body.timestamp = row.timestamp
    /\ body.total = row.total
    /\ body.payment_key = row.payment_key
    /\ [ k \in 1..Len(body.order_items) |->
           [item_id |-> body.order_items[k].item_id, quantity |-> body.order_items[k].quantity] ]
         = LinesOf(row.id, table)
    /\ { body.order_items[k].id : k \in 1..Len(body.order_items) }
         = { l.id : l \in LineRows(row.id, table) }

(* C12: stored orders are immutable.  In every step, whatever the          *)
(* operation (another order, a failed and rolled-back order, the creation  *)
(* of a category or an item), every stored order header and its lines stay *)
(* as they are; the order returned by create_order is the row it stored;   *)
(* get_order of a stored id returns id, timestamp, total, payment_key and  *)
(* line items of that row, and get_order of an id that was never created   *)
(* returns 404.                                                            *)
C12_StoredOrdersImmutable ==
    [][ /\ \A r \in orders :
              /\ r \in orders'
              /\ LineRows(r.id, order_items') = LineRows(r.id, order_items)
        /\ \A p \in Procs :
              (sess[p].pc = "lines" /\ Succeeded(sess'[p]))
              => \E r \in orders' \ orders : SameOrder(TheBody(sess'[p]), r, order_items')
        /\ \A p \in Procs :
              (sess[p].pc = "idle" /\ sess'[p].entry = "get_order")
              => LET hit == { r \in orders : r.id = sess'[p].i }
                 IN  IF hit = {}
                     THEN sess'[p].response = HTTPException(404, [kind |-> "OrderNotFound"])
                     ELSE /\ Succeeded(sess'[p])
                          /\ \A r \in hit : SameOrder(TheBody(sess'[p]), r, order_items)
      ]_vars

\* order 1 is read back after a second order and a category were stored
C12_Witness ==
    \E p \in Procs :
        LET s == sess[p] IN
        /\ Succeeded(s)
        /\ s.entry = "get_order"
        /\ s.i = 1
        /\ TheBody(s).order_items # <<>>
        /\ \E r \in orders : r.id = 2
        /\ Cardinality(categories) > Cardinality(SeedCategories)

(* C13: under any interleaving of order submissions, including ones that   *)
(* fail and roll back after the header was flushed, every created order    *)
(* gets an id that no stored order has: the id returned by a successful    *)
(* create_order is the id of the one row added by its commit and of no row *)
(* stored before, no two stored orders share an id, and no two returned    *)
(* orders share an id.                                                     *)
C13_FreshOrderIds ==
    [][ /\ \A r1, r2 \in orders' : r1.id = r2.id => r1 = r2
        /\ \A p \in Procs :
              (sess[p].pc = "lines" /\ Succeeded(sess'[p]))
              => /\ \A r \in orders : r.id # TheBody(sess'[p]).id
                 /\ \E r \in orders' \ orders :
                       /\ r.id = TheBody(sess'[p]).id
                       /\ orders' = orders \cup {r}
        /\ \A p, q \in Procs :
              ( /\ p # q
                /\ Succeeded(sess'[p]) /\ sess'[p].entry \in CreateEntries
                /\ Succeeded(sess'[q]) /\ sess'[q].entry \in CreateEntries )
              => TheBody(sess'[p]).id # TheBody(sess'[q]).id
      ]_vars

\* a second order was created while another submission, started after the
\* first order was stored, failed after its header had been flushed
C13_Witness ==
    \E p, q \in Procs :
        /\ p # q
        /\ Succeeded(sess[p]) /\ sess[p].entry \in CreateEntries
        /\ TheBody(sess[p]).id = 2
        /\ sess[q].pc = "done"
        /\ \E k \in CallsOf(sess[q], "repository.create_order") : sess[q].trace[k].result
        /\ CallsOf(sess[q], "store_failure") # {}
        /\ Cardinality(sess[q].snap.orders) = 1
        /\ Cardinality(orders) = 2

(* C14: the timestamp of a stored order is the time of its commit: the row *)
(* that a commit makes visible carries the time of that commit, which is   *)
(* never the time at which models.py was loaded, and an order committed    *)
(* later than another never carries an earlier timestamp.                  *)
C14_TimestampAtCommit ==
    [][ /\ \A r \in orders' \ orders : r.timestamp = clock
        /\ \A r \in orders' : r.timestamp # ModuleLoadTime
        /\ \A r1, r2 \in orders' : r1.id < r2.id => r1.timestamp <= r2.timestamp
      ]_vars

(* C15: in every reachable state, every stored order names catalog items   *)
(* only and its total is within 0.01 of the sum over its lines of the      *)
(* catalog price of the item times the quantity; this is so after orders,  *)
(* failed orders, and the creation of categories and items.                *)
C15_StoredTotalsPriced ==
    \A r \in orders :
        LET lines == LinesOf(r.id, order_items) IN
        /\ \A k \in 1..Len(lines) : InCatalog(lines[k].item_id)
        /\ Abs(r.total - CatalogTotal(lines)) <= Tolerance

\* an order of an item added through the admin service is stored next to an
\* order whose declared total is within the tolerance but not the sum
C15_Witness ==
    /\ \E r \in orders :
          /\ LinesOf(r.id, order_items) # <<>>
          /\ r.total # CatalogTotal(LinesOf(r.id, order_items))
    /\ \E r \in orders :
          \E l \in LineRows(r.id, order_items) :
              l.item_id \notin { it.id : it \in SeedItems }

(* C16: every rejection of create_order maps to its category: a missing    *)
(* item and a total mismatch are 400, a denied payment is 402, and every   *)
(* failure of persistence after validation and authorization passed is     *)
(* 500, whatever exception the persistence layer raised.                   *)
C16_RejectionCategories ==
    \A p \in Procs :
        LET s == sess[p] IN
        (s.pc = "done" /\ s.entry \in {"service", "main"} /\ ~Succeeded(s))
        => /\ s.response.raised = "HTTPException"
           /\ IF CallsOf(s, "repository.create_order") # {}
              THEN s.response.status = 500
              ELSE IF Denied(s)
              THEN s.response.status = 402
              ELSE /\ s.response.status = 400
                   /\ s.response.detail.kind \in {"ItemNotFound", "TotalMismatch"}

(* C17: an order with an empty item list is not rejected for being empty.  *)
(* No item is looked up, the total check runs with computed total 0, and   *)
(* the order is rejected with 400 total mismatch (expected 0) when its     *)
(* declared total exceeds 0.01; otherwise the authorizer is called and,    *)
(* when it approves and the store works, the order is stored and returned  *)
(* with zero line items.                                                   *)
C17_EmptyOrderProceeds ==
    \A p \in Procs :
        LET s == sess[p] IN
        (s.entry = "service" /\ s.order.items = <<>>)
        => /\ CallsOf(s, "get_item_by_id") = {}
           /\ \A k \in CallsOf(s, "total_check") : s.trace[k].arg = 0
           /\ s.pc = "done" =>
                IF s.order.total > Tolerance
                THEN /\ s.response = HTTPException(400, TotalMismatch(0, s.order.total))
                     /\ CallsOf(s, "process_payment") = {}
                     /\ TablesAsAtStart(s)
                ELSE /\ Cardinality(CallsOf(s, "process_payment")) = 1
                     /\ (~Denied(s) /\ ~StoreFailed(s))
                        => /\ Succeeded(s)
                           /\ TheBody(s).order_items = <<>>
                           /\ \E r \in orders \ s.snap.orders : r.id = TheBody(s).id
                           /\ LineRows(TheBody(s).id, order_items) = {}

\* an order without items and with declared total 0.01 was stored
C17_Witness ==
    \E p \in Procs :
        LET s == sess[p] IN
        /\ Succeeded(s)
        /\ s.entry = "service"
        /\ s.order.items = <<>>
        /\ s.order.total = Tolerance
        /\ \E r \in orders : r.id = TheBody(s).id /\ LineRows(r.id, order_items) = {}

\* two names are equal ignoring case
SameNameIgnoringCase(a, b) == Lower(a) = Lower(b)

(* C18: a create_category request whose name equals the name of an         *)
(* existing category ignoring case is rejected with 400 "already exists"   *)
(* and stores nothing; so no two stored categories have names that are     *)
(* equal ignoring case.                                                    *)
C18_CategoryNamesDistinct ==
    /\ \A c1, c2 \in categories : SameNameIgnoringCase(c1.name, c2.name) => c1 = c2
    /\ \A p \in Procs :
          LET s == sess[p] IN
          ( /\ s.pc = "done"
            /\ s.entry = "create_category"
            /\ \E c \in s.snap.categories : SameNameIgnoringCase(c.name, s.admin.name) )
          => /\ s.response = HTTPException(400, [kind |-> "CategoryExists"])
             /\ categories = s.snap.categories

(* C19: a create_item request whose name equals, ignoring case, the name   *)
(* of an item of the same category is rejected with 400 and stores         *)
(* nothing, while the same name in another category is accepted; so no     *)
(* category holds two items whose names are equal ignoring case.           *)
C19_ItemNamesDistinctInCategory ==
    /\ \A i1, i2 \in items :
          (i1.category_id = i2.category_id /\ SameNameIgnoringCase(i1.name, i2.name))
          => i1 = i2
    /\ \A p \in Procs :
          LET s == sess[p]
              same == { it \in s.snap.items : SameNameIgnoringCase(it.name, s.admin.name) }
          IN
          ( /\ s.pc = "done"
            /\ s.entry = "create_item"
            /\ \E c \in s.snap.categories : c.id = s.admin.category_id
            /\ same # {} )
          => IF \E it \in same : it.category_id = s.admin.category_id
             THEN /\ s.response = HTTPException(400, [kind |-> "ItemExists"])
                  /\ items = s.snap.items
             ELSE CallsOf(s, "store_failure") = {}
                  => /\ Succeeded(s)
                     /\ \E it \in items \ s.snap.items :
                           it.name = s.admin.name /\ it.category_id = s.admin.category_id

C21_ItemsOfRequestedCategory ==
    \A p \in Procs :
        LET s == sess[p] IN
        (s.pc = "done" /\ s.entry = "get_items")
        => /\ Succeeded(s)
           /\ TheBody(s) = IF s.admin.given
                           THEN { it \in items : it.category_id = s.admin.category_id }
                           ELSE items

(* C22: in every reachable state every catalog item created through the   *)
(* admin service has a unit price above 0, every stored order has a total  *)
(* above 0, and every stored order line has a quantity above 0 and names   *)
(* an item that exists in the catalog.                                     *)
C22_PositiveAndReferenced ==
    /\ \A it \in items \ SeedItems : it.price > 0
    /\ \A o \in orders : o.total > 0
    /\ \A l \in order_items :
          /\ l.quantity > 0
          /\ \E it \in items : it.id = l.item_id

\* an added item and committed orders, one of them of the added item
C22_Witness ==
    /\ items # SeedItems
    /\ Cardinality(orders) >= 2
    /\ \E l \in order_items : \E it \in items \ SeedItems : l.item_id = it.id
    /\ \A o \in orders : LineRows(o.id, order_items) # {}

(* C23: for every order that reaches authorization, the payment authorizer *)
(* is invoked with the total the server computed, the sum of catalog price *)
(* times quantity, as the amount to charge, not with the total the client  *)
(* declared.                                                               *)
C23_AuthorizerChargesComputedTotal ==
    \A p \in Procs :
        LET s == sess[p] IN
        \A k \in CallsOf(s, "process_payment") :
            s.trace[k].arg = CatalogTotal(s.order.items)

\* the calls a request made before it entered repository.create_order
Validation(s) ==
    { k \in 1..Len(s.trace) :
        \A j \in CallsOf(s, "repository.create_order") : k < j }

\* the first line of an order whose item is not in the catalog
FirstMissing(order) == CHOOSE k \in MissingLines(order) : \A j \in MissingLines(order) : k <= j

(* C24: OrderService.create_order runs its checks in a fixed order and     *)
(* stops at the first failure: the items are looked up in submission order *)
(* and the first missing item is the one named, no later line being looked *)
(* up; then comes the total check, then payment authorization, then        *)
(* persistence. An order with a missing item and a wrong total is rejected *)
(* as item-not-found, and an order with a wrong total is rejected as       *)
(* total-mismatch without the authorizer being asked.                      *)
C24_ChecksInFixedOrder ==
    \A p \in Procs :
        LET s == sess[p]
            n == Len(s.order.items)
        IN
        s.entry = "service"
        => /\ \A k \in Validation(s) :
                 LET c == s.trace[k] IN
                 /\ c.call \in {"get_item_by_id", "total_check", "process_payment"}
                 /\ c.call = "get_item_by_id"
                    => /\ k <= n
                       /\ c.arg = s.order.items[k].item_id
                       /\ \A j \in 1..(k - 1) :
                             s.trace[j].call = "get_item_by_id" /\ s.trace[j].result
                 /\ c.call = "total_check"
                    => /\ k = n + 1
                       /\ \A j \in 1..n :
                             s.trace[j].call = "get_item_by_id" /\ s.trace[j].result
                 /\ c.call = "process_payment"
                    => /\ k = n + 2
                       /\ s.trace[k - 1].call = "total_check" /\ s.trace[k - 1].result
           /\ \A k \in CallsOf(s, "repository.create_order") :
                 /\ k = n + 3
                 /\ s.trace[k - 1].call = "process_payment" /\ s.trace[k - 1].result
           /\ (s.pc = "done" /\ MissingLines(s.order) # {})
              => /\ s.response =
                      HTTPException(400, ItemNotFound(s.order.items[FirstMissing(s.order)].item_id))
                 /\ Len(s.trace) = FirstMissing(s.order)
           /\ (s.pc = "done" /\ MissingLines(s.order) = {}
                 /\ TotalMismatches(CatalogTotal(s.order.items), s.order.total))
              => /\ s.response.status = 400
                 /\ s.response.detail.kind = "TotalMismatch"
                 /\ Len(s.trace) = n + 1

\* a rejected order whose second line names a missing item and whose total
\* is wrong for the line that exists
C24_Witness ==
    \E p \in Procs :
        LET s == sess[p] IN
        /\ s.entry = "service" /\ s.pc = "done"
        /\ Len(s.order.items) = 2
        /\ MissingLines(s.order) = {2}
        /\ TotalMismatches(CatalogTotal(SubSeq(s.order.items, 1, 1)), s.order.total)
        /\ s.response.detail = ItemNotFound(s.order.items[2].item_id)

\* the calls at which a collaborator raised
Failures(s) ==
    CallsOf(s, "exception") \cup CallsOf(s, "store_failure") \cup CallsOf(s, "database_locked")

(* C25: an unexpected exception raised by a collaborator during            *)
(* create_order (a catalog lookup, the payment authorizer or persistence)  *)
(* is surfaced to the caller as a server error 500 with no retry: after    *)
(* the failure no collaborator is invoked again within that attempt, each  *)
(* catalog lookup, the authorizer and persistence being attempted at most  *)
(* once, and no order is stored.                                           *)
C25_CollaboratorFailureIs500 ==
    \A p \in Procs :
        LET s == sess[p] IN
        (s.entry \in {"service", "main"} /\ Failures(s) # {})
        => /\ s.pc = "done"
           /\ s.response.status = 500
           /\ Failures(s) = {Len(s.trace)}
           /\ Cardinality(CallsOf(s, "process_payment")) <= 1
           /\ Cardinality(CallsOf(s, "repository.create_order")) <= 1
           /\ \A j, k \in Validation(s) :
                 (s.trace[j].call = "get_item_by_id" /\ s.trace[k].call = "get_item_by_id"
                    /\ j < k)
                 => k - j >= 1 /\ k <= Len(s.order.items)
           /\ NothingPending(s)
           /\ TablesAsAtStart(s)

MenuReads == {"get_categories", "get_menu", "get_items", "get_item"}

(* C26: catalog lookup has no side effects and each order line's item is   *)
(* read from the catalog once per submission: create_order, accepted or    *)
(* rejected, and all menu reads leave the categories and items tables      *)
(* unchanged, and the item used for an order is not read from the catalog  *)
(* again after validation.                                                 *)
C26_CatalogReadOnce ==
    \A p \in Procs :
        LET s == sess[p] IN
        /\ s.entry \in {"service", "main"} \cup MenuReads
           => categories = s.snap.categories /\ items = s.snap.items
        /\ s.entry \in {"service", "main"}
           => /\ Cardinality(CallsOf(s, "get_item_by_id")) <= Len(s.order.items)
              /\ CallsOf(s, "get_item_by_id") \subseteq Validation(s)

Ends(p) ==
    /\ sess[p].entry \in CreateEntries
    /\ sess[p].pc # "done"
    /\ sess'[p].pc = "done"

(* C28: order creation is not idempotent. Every successful submission adds *)
(* exactly one order, with an id no stored order has, whose payment_key,   *)
(* total and line items are those of the payload, also when an order of    *)
(* the same payload is stored already: N successful submissions of one     *)
(* payload give N stored orders with pairwise different ids and identical  *)
(* payment_key, total and line items. A submission that fails leaves       *)
(* nothing behind.                                                         *)
C28_NotIdempotent ==
    [][ \A p \in Procs :
          Ends(p)
          => IF Succeeded(sess'[p])
             THEN \E r \in orders' \ orders :
                     /\ orders' = orders \cup {r}
                     /\ \A old \in orders : old.id # r.id
                     /\ r.total = sess[p].order.total
                     /\ r.payment_key = PaymentKey(sess[p].order.payment)
                     /\ LinesOf(r.id, order_items') = sess[p].order.items
                     /\ order_items' \ order_items = LineRows(r.id, order_items')
                     /\ \A l \in order_items : l \in order_items'
                     /\ TheBody(sess'[p]).id = r.id
             ELSE /\ orders' = orders
                  /\ order_items' = order_items
                  /\ NothingPending(sess'[p])
      ]_vars

\* two workers submitted the same payload and both succeeded: two orders
\* are stored that differ in their ids only
C28_Witness ==
    \E p, q \in Procs :
        /\ p # q
        /\ Succeeded(sess[p]) /\ sess[p].entry \in CreateEntries
        /\ Succeeded(sess[q]) /\ sess[q].entry \in CreateEntries
        /\ sess[p].order = sess[q].order
        /\ \E r1, r2 \in orders :
              /\ r1.id = TheBody(sess[p]).id /\ r2.id = TheBody(sess[q]).id
              /\ r1.id # r2.id
              /\ r1.payment_key = r2.payment_key /\ r1.total = r2.total
              /\ LinesOf(r1.id, order_items) = LinesOf(r2.id, order_items)
              /\ LinesOf(r1.id, order_items) # <<>>

\* what a finished order request answered and stored, stated from its
\* order, the tables it found and whether the store failed, without regard
\* to the entry point it came through
OutcomeOfInput(s) ==
    LET order == s.order IN
    IF MissingLines(order) # {}
    THEN /\ s.response =
              HTTPException(400, ItemNotFound(order.items[FirstMissing(order)].item_id))
         /\ TablesAsAtStart(s)
    ELSE IF TotalMismatches(CatalogTotal(order.items), order.total)
    THEN /\ s.response =
              HTTPException(400, TotalMismatch(CatalogTotal(order.items), order.total))
         /\ TablesAsAtStart(s)
    ELSE IF StoreFailed(s)
    THEN /\ s.response \in { HTTPException(400, [kind |-> "StoreFailure"]),
                             HTTPException(500, [kind |-> "ProcessingError"]) }
         /\ TablesAsAtStart(s)
    ELSE LET r == [ id |-> NextId(s.snap.orders), timestamp |-> ModuleLoadTime,
                    total |-> order.total, payment_key |-> PaymentKey(order.payment),
                    payment_data |-> MaskedPaymentData(order.payment) ]
         IN  /\ orders = s.snap.orders \cup {r}
             /\ r \notin s.snap.orders
             /\ LinesOf(r.id, order_items) = order.items
             /\ order_items \ s.snap.order_items = LineRows(r.id, order_items)
             /\ s.snap.order_items \subseteq order_items
             /\ s.response = Returned(OrderSchema(r, order_items))

(* C29: the two order-creation entry points are equivalent: for every      *)
(* order input and every catalog state, the create_order handler of        *)
(* main.py and OrderService.create_order yield the same outcome (the same  *)
(* status code and detail, or the same stored order) and the same          *)
(* resulting store state, given a payment stub that always approves.       *)
C29_EntryPointsEquivalent ==
    \A p \in Procs :
        LET s == sess[p] IN
        (s.pc = "done" /\ s.entry \in {"service", "main"} /\ ~Denied(s))
        => /\ OutcomeOfInput(s)
           /\ categories = s.snap.categories /\ items = s.snap.items

\* the handler of main.py stored an order whose declared total differs from
\* the computed one, without a call of the authorizer
C29_Witness ==
    \E p \in Procs :
        LET s == sess[p] IN
        /\ s.entry = "main" /\ Succeeded(s)
        /\ s.order.items # <<>>
        /\ s.order.total # CatalogTotal(s.order.items)
        /\ CallsOf(s, "process_payment") = {}
        /\ OutcomeOfInput(s)

\* a create_category request that passed the checks of the service and
\* went on to the repository
PassedCategoryCheck(s) ==
    /\ s.entry = "create_category"
    /\ s.pc = "done"
    /\ CallsOf(s, "repository.create_category") \cup CallsOf(s, "store_failure") # {}

(* C30: when two create_category requests with the same name run           *)
(* concurrently on separate sessions and both pass the duplicate check of  *)
(* the service before either commits, the unique constraint on             *)
(* categories.name lets at most one of them commit; the other is rolled    *)
(* back and answered with a 500 server error, not the 400 'already         *)
(* exists', and exactly one category with that name is stored.             *)
C30_UniqueConstraintDecides ==
    /\ \A c1, c2 \in categories : c1.name = c2.name => c1 = c2
    /\ \A p, q \in Procs :
          ( /\ p # q
            /\ PassedCategoryCheck(sess[p]) /\ PassedCategoryCheck(sess[q])
            /\ sess[p].admin.name = sess[q].admin.name )
          => /\ ~(Succeeded(sess[p]) /\ Succeeded(sess[q]))
             /\ Succeeded(sess[p])
                => /\ sess[q].response.status = 500
                   /\ CallsOf(sess[q], "rollback") # {}
             /\ (~StoreFailed(sess[p]) /\ ~StoreFailed(sess[q]))
                => /\ Succeeded(sess[p]) \/ Succeeded(sess[q])
                   /\ Cardinality({ c \in categories : c.name = sess[p].admin.name }) = 1

\* both requests passed the check, one committed, the other met the
\* constraint and was rolled back
C30_Witness ==
    \E p, q \in Procs :
        /\ p # q
        /\ PassedCategoryCheck(sess[p]) /\ PassedCategoryCheck(sess[q])
        /\ sess[p].admin.name = sess[q].admin.name
        /\ Succeeded(sess[p])
        /\ ~StoreFailed(sess[q])
        /\ sess[q].response = AdminError
        /\ CallsOf(sess[q], "repository.create_category") # {}
        /\ Cardinality({ c \in categories : c.name = sess[p].admin.name }) = 1

====
